---------------------------- MODULE Spec2Model ----------------------------
(***************************************************************************)
(* A model of the heterogeneous-groups engine:                             *)
(*   - HeterogeneousGrouper.scaled_grid, difference_matrix and             *)
(*     group_algorithm_number            (grouping.py)                     *)
(*   - DataProperties and its key validation  (data_properties.py)         *)
(* Numbers are exact rationals [n, d] in lowest terms with d > 0.          *)
(***************************************************************************)
EXTENDS Integers, Sequences, FiniteSets, TLC

VARIABLES
    data,     \* HeterogeneousGrouper.data: the retained records, in input order
    nprops,   \* HeterogeneousGrouper.nprops: the numeric properties
    cprops,   \* HeterogeneousGrouper.cprops: the categorical properties
    pc,       \* "idle" between calls, "loop" inside group_algorithm_number's while
    op,       \* the last method called on the engine
    ret,      \* what the last finished call returned or raised
    g,        \* group_algorithm_number's argument
    matrix,   \* group_algorithm_number's local working matrix
    c,        \* group_algorithm_number's local group map
    picked,   \* the pairs (m_i, m_j) selected so far by the running call
    args,     \* the arguments handed to the DataProperties constructor
    dp,       \* the outcome of constructing DataProperties
    ungrouped,  \* same-size strategy: the items not yet in a group, in input order
    unassigned, \* same-size strategy: the groups not yet served in this round
    calls,    \* how many calls were made on the engine
    fresh,    \* per call made, what its first run on the engine returned or raised
    ctor,     \* the constructor of a value type that is called, with its arguments
    built     \* the outcome of that constructor

vars == <<data, nprops, cprops, pc, op, ret, g, matrix, c, picked, args, dp,
          ungrouped, unassigned, calls, fresh, ctor, built>>

---------------------------------------------------------------------------
(* Bounds of the model *)

\* most items of an engine that is grouped
MaxN == 4
\* most items of an engine whose grid and matrix are inspected
MaxM == 2
\* raw numeric values are 0..MaxVal
MaxVal == 2
\* most numeric (and most categorical) properties handed to DataProperties
MaxProps == 2
\* most calls made on one engine
MaxCalls == 2
\* the values handed to the value types are k/2 for -MaxHalves <= k <= MaxHalves
MaxHalves == 4
\* most connections handed to a CategoricalProperty
MaxCons == 2

---------------------------------------------------------------------------
(* Exact rational arithmetic standing in for Python's float arithmetic *)

Abs(x) == IF x < 0 THEN -x ELSE x

RECURSIVE GCD(_, _)
GCD(a, b) == IF b = 0 THEN a ELSE GCD(b, a % b)

Rat(n, d) ==
    LET s == IF d < 0 THEN -1 ELSE 1
        k == GCD(Abs(n), Abs(d))
    IN  [n |-> (s * n) \div k, d |-> (s * d) \div k]

Int2Rat(i) == [n |-> i, d |-> 1]
Zero == Int2Rat(0)
One == Int2Rat(1)

RAdd(a, b) == Rat(a.n * b.d + b.n * a.d, a.d * b.d)
RSub(a, b) == Rat(a.n * b.d - b.n * a.d, a.d * b.d)
RMul(a, b) == Rat(a.n * b.n, a.d * b.d)
\* defined for b # 0 only; callers raise ZeroDivisionError otherwise
RDiv(a, b) == Rat(a.n * b.d, a.d * b.n)
RAbs(a) == [n |-> Abs(a.n), d |-> a.d]
RGt(a, b) == a.n * b.d > b.n * a.d
RLe(a, b) == ~RGt(a, b)

---------------------------------------------------------------------------
(* Values of the engine *)

\* Optional[Boundaries] = None
None == [present |-> FALSE, lower |-> Zero, upper |-> Zero]
Boundaries(lo, up) == [present |-> TRUE, lower |-> lo, upper |-> up]

\* the outcome of a call
Return(v) == [kind |-> "return", val |-> v, exc |-> "-"]
Raise(e) == [kind |-> "raise", val |-> <<>>, exc |-> e]
NoCall == [kind |-> "none", val |-> <<>>, exc |-> "-"]

Range(s) == {s[i] : i \in DOMAIN s}

\* a dict or list once it is built: the same function, with every value
\* computed when it is made rather than at each lookup
Built(f) == f @@ <<>>

\* [item[self.identifier.key] for item in self.data]
ItemIds(d) == Built([i \in 1..Len(d) |-> d[i].id])

RECURSIVE SeqMin(_, _)
SeqMin(s, i) ==
    IF i = Len(s) THEN s[i]
    ELSE LET m == SeqMin(s, i + 1) IN IF RGt(s[i], m) THEN m ELSE s[i]

RECURSIVE SeqMax(_, _)
SeqMax(s, i) ==
    IF i = Len(s) THEN s[i]
    ELSE LET m == SeqMax(s, i + 1) IN IF RGt(m, s[i]) THEN m ELSE s[i]

---------------------------------------------------------------------------
(* scaled_grid *)

\* the raw values of numeric property p over the batch
Column(d, p) == [i \in 1..Len(d) |-> d[i].num[p]]

\* mbl: the lower bound the raw values are scaled from
Mbl(d, np, p) ==
    IF np[p].measurement_bounds.present THEN np[p].measurement_bounds.lower
    ELSE SeqMin(Column(d, p), 1)

\* mbu: the upper bound the raw values are scaled from
Mbu(d, np, p) ==
    IF np[p].measurement_bounds.present THEN np[p].measurement_bounds.upper
    ELSE SeqMax(Column(d, p), 1)

\* (v - mbl) / (mbu - mbl) * (scale upper - scale lower) + scale lower
ScaleValueNoOffset(v, mbl, mbu, sb) ==
    RMul(RDiv(RSub(v, mbl), RSub(mbu, mbl)), RSub(sb.upper, sb.lower))

ScaleValue(v, mbl, mbu, sb) ==
    RAdd(RMul(RDiv(RSub(v, mbl), RSub(mbu, mbl)), RSub(sb.upper, sb.lower)),
         sb.lower)

\* The grid: per item id, the scaled numeric values and the raw categorical
\* values.  min()/max() of an empty batch raise ValueError; a zero divisor
\* mbu - mbl raises ZeroDivisionError at the first item.
scaled_grid(d, np, cp) ==
    IF Len(d) = 0
    THEN IF \E p \in DOMAIN np : ~np[p].measurement_bounds.present
         THEN Raise("ValueError")
         ELSE Return(<<>>)
    ELSE IF \E p \in DOMAIN np : Mbu(d, np, p) = Mbl(d, np, p)
    THEN Raise("ZeroDivisionError")
    ELSE Return(Built([id \in Range(ItemIds(d)) |->
            LET i == CHOOSE k \in 1..Len(d) :
                        /\ d[k].id = id
                        /\ \A k2 \in 1..Len(d) : d[k2].id = id => k2 <= k
            IN  [num |-> [p \in DOMAIN np |->
                            ScaleValue(d[i].num[p], Mbl(d, np, p),
                                       Mbu(d, np, p), np[p].scale_bounds)],
                 cat |-> d[i].cat]]))

---------------------------------------------------------------------------
(* difference_matrix *)

\* hnp.weight * abs(grid[i][hnp] - grid[j][hnp]) / (scale upper - scale lower)
NumericTermSigned(hnp, gi, gj) ==
    RDiv(RMul(hnp.weight, RSub(gi, gj)),
         RSub(hnp.scale_bounds.upper, hnp.scale_bounds.lower))

NumericTerm(hnp, gi, gj) ==
    RDiv(RMul(hnp.weight, RAbs(RSub(gi, gj))),
         RSub(hnp.scale_bounds.upper, hnp.scale_bounds.lower))

\* the factor the weight of a categorical property is multiplied by:
\*   similarities[vi][vj] if similarities and vi in similarities
\*                           and vj in similarities[vi]
\*   else 0 if vi == vj else 1
CategoricalFactor(sims, vi, vj) ==
    IF DOMAIN sims # {} /\ vi \in DOMAIN sims /\ vj \in DOMAIN sims[vi]
    THEN sims[vi][vj]
    ELSE IF vi = vj THEN Zero ELSE One

\* hcp.weight * (...)
CategoricalTerm(hcp, vi, vj) ==
    RMul(hcp.weight, CategoricalFactor(hcp.similarities, vi, vj))

RECURSIVE SumNumeric(_, _, _, _)
SumNumeric(np, gi, gj, p) ==
    IF p > Len(np) THEN Zero
    ELSE RAdd(NumericTerm(np[p], gi.num[p], gj.num[p]),
              SumNumeric(np, gi, gj, p + 1))

RECURSIVE SumCategorical(_, _, _, _)
SumCategorical(cp, gi, gj, p) ==
    IF p > Len(cp) THEN Zero
    ELSE RAdd(CategoricalTerm(cp[p], gi.cat[p], gj.cat[p]),
              SumCategorical(cp, gi, gj, p + 1))

\* matrix[i][j] without the division by the number of properties
EntryNotAveraged(np, cp, gi, gj) ==
    RAdd(SumNumeric(np, gi, gj, 1), SumCategorical(cp, gi, gj, 1))

\* matrix[i][j] after the last statement of the pair loop
Entry(np, cp, gi, gj) ==
    RDiv(RAdd(SumNumeric(np, gi, gj, 1), SumCategorical(cp, gi, gj, 1)),
         Int2Rat(Len(np) + Len(cp)))

\* The matrix over the item ids; a failing scaled_grid propagates, a zero
\* scale range or a zero property count raises ZeroDivisionError at the
\* first pair.
difference_matrix(d, np, cp) ==
    LET grid == scaled_grid(d, np, cp)
        ids == Range(ItemIds(d))
    IN  IF grid.kind = "raise" THEN grid
        ELSE IF ids = {} THEN Return(<<>>)
        ELSE IF \E p \in DOMAIN np :
                    np[p].scale_bounds.upper = np[p].scale_bounds.lower
        THEN Raise("ZeroDivisionError")
        ELSE IF Len(np) + Len(cp) = 0 THEN Raise("ZeroDivisionError")
        ELSE Return(Built([i \in ids |-> Built([j \in ids |->
                        Entry(np, cp, grid.val[i], grid.val[j])])]))

---------------------------------------------------------------------------
(* group_algorithm_number *)

\* matrix[r].keys(): the remaining keys of a row, in input order
RowKeys(order, row) == SelectSeq(order, LAMBDA x : x \in DOMAIN row)

\* reduce(lambda acc, cur: acc if matrix[r][acc] > matrix[r][cur] else cur,
\*        matrix[r].keys())
RECURSIVE ReduceRow(_, _, _, _)
ReduceRow(row, keys, acc, k) ==
    IF k > Len(keys) THEN acc
    ELSE ReduceRow(row, keys,
                   IF RGt(row[acc], row[keys[k]]) THEN acc ELSE keys[k],
                   k + 1)

\* the reduce with a lambda that keeps acc unless cur is strictly greater
RECURSIVE ReduceRowKeepFirst(_, _, _, _)
ReduceRowKeepFirst(row, keys, acc, k) ==
    IF k > Len(keys) THEN acc
    ELSE ReduceRowKeepFirst(row, keys,
                   IF RGt(row[keys[k]], row[acc]) THEN keys[k] ELSE acc,
                   k + 1)

RowArgMaxKeepFirst(row, keys) == ReduceRowKeepFirst(row, keys, keys[1], 2)

RowArgMax(row, keys) == ReduceRow(row, keys, keys[1], 2)

\* [(r, reduce(...)) for r in matrix]
Candidates(m, order) ==
    Built([r \in 1..Len(order) |->
        <<order[r], RowArgMax(m[order[r]], RowKeys(order, m[order[r]]))>>])

\* max(..., key=lambda ij: matrix[ij[0]][ij[1]]): the first greatest element
RECURSIVE MaxByKey(_, _, _, _)
MaxByKey(m, cands, best, k) ==
    IF k > Len(cands) THEN best
    ELSE MaxByKey(m, cands,
                  IF RGt(m[cands[k][1]][cands[k][2]], m[best[1]][best[2]])
                  THEN cands[k] ELSE best,
                  k + 1)

\* m_i, m_j
SelectPair(m, order) ==
    LET cands == Candidates(m, order) IN MaxByKey(m, cands, cands[1], 2)

SetMin(S) == CHOOSE x \in S : \A y \in S : x <= y
SetMax(S) == CHOOSE x \in S : \A y \in S : x >= y

\* reduce(lambda acc, cur: cur if m in c[cur] else acc, c.keys(),
\*        list(c.keys())[0]): the last group holding m, else the first group
FindGroup(cc, m) ==
    LET holding == {k \in DOMAIN cc : m \in Range(cc[k])}
    IN  IF holding = {} THEN SetMin(DOMAIN cc) ELSE SetMax(holding)

\* if c_h != c_k: c[c_h].extend(c[c_k]); c.pop(c_k)
MergeGroupsKeepBoth(cc, h, k) ==
    IF h # k
    THEN Built([x \in DOMAIN cc |-> IF x = h THEN cc[h] \o cc[k] ELSE cc[x]])
    ELSE cc

\* the merged members are kept under the id of the second group
MergeGroupsIntoSecond(cc, h, k) ==
    IF h # k
    THEN Built([x \in DOMAIN cc \ {h} |->
                    IF x = k THEN cc[h] \o cc[k] ELSE cc[x]])
    ELSE cc

MergeGroups(cc, h, k) ==
    IF h # k
    THEN Built([x \in DOMAIN cc \ {k} |->
                    IF x = h THEN cc[h] \o cc[k] ELSE cc[x]])
    ELSE cc

\* matrix[i].pop(j), for j a key of matrix[i]
Pop(m, i, j) ==
    Built([m EXCEPT ![i] = Built([x \in DOMAIN m[i] \ {j} |-> m[i][x]])])

\* len(c.keys()) > g and any(map(lambda row: len(matrix[row]), matrix))
LoopCond(cc, gg, m) ==
    /\ Cardinality(DOMAIN cc) > gg
    /\ ~(\A r \in DOMAIN m : DOMAIN m[r] = {})

\* dict(zip(range(len(self.data)), [[item[id]] for item in self.data]))
InitialGroups(d) == Built([k \in 0..(Len(d) - 1) |-> <<d[k + 1].id>>])

---------------------------------------------------------------------------
(* The calls on an engine *)

EngineUnchanged ==
    UNCHANGED <<data, nprops, cprops, args, dp, ungrouped, unassigned,
                ctor, built>>

\* HeterogeneousGrouper.scaled_grid()
ScaledGridCall ==
    /\ pc = "idle"
    /\ op' = "scaled_grid"
    /\ ret' = scaled_grid(data, nprops, cprops)
    /\ pc' = "idle"
    /\ g' = 0 /\ matrix' = <<>> /\ c' = <<>> /\ picked' = <<>>
    /\ EngineUnchanged

\* HeterogeneousGrouper.difference_matrix()
DifferenceMatrixCall ==
    /\ pc = "idle"
    /\ op' = "difference_matrix"
    /\ ret' = difference_matrix(data, nprops, cprops)
    /\ pc' = "idle"
    /\ g' = 0 /\ matrix' = <<>> /\ c' = <<>> /\ picked' = <<>>
    /\ EngineUnchanged

\* group_algorithm_number(g) on a matrix the engine keeps between calls
GroupBeginOnKeptMatrix(gg) ==
    /\ pc = "idle"
    /\ op' = "group"
    /\ g' = gg
    /\ picked' = <<>>
    /\ \E dm \in {IF matrix # <<>> THEN Return(matrix)
                   ELSE difference_matrix(data, nprops, cprops)} :
           IF dm.kind = "raise"
           THEN /\ ret' = dm
                /\ pc' = "idle"
                /\ matrix' = <<>>
                /\ c' = <<>>
           ELSE /\ ret' = NoCall
                /\ pc' = "loop"
                /\ matrix' = dm.val
                /\ c' = InitialGroups(data)
    /\ EngineUnchanged

\* HeterogeneousGrouper.group_algorithm_number(g), up to the while
GroupBegin(gg) ==
    /\ pc = "idle"
    /\ op' = "group"
    /\ g' = gg
    /\ picked' = <<>>
    /\ \E dm \in {difference_matrix(data, nprops, cprops)} :
           IF dm.kind = "raise"
           THEN /\ ret' = dm
                /\ pc' = "idle"
                /\ matrix' = <<>>
                /\ c' = <<>>
           ELSE /\ ret' = NoCall
                /\ pc' = "loop"
                /\ matrix' = dm.val
                /\ c' = InitialGroups(data)
    /\ EngineUnchanged

\* one iteration of the while loop
GroupIter ==
    /\ pc = "loop"
    /\ LoopCond(c, g, matrix)
    /\ IF \E r \in DOMAIN matrix : DOMAIN matrix[r] = {}
       THEN \* reduce() of an empty row
            /\ ret' = Raise("TypeError")
            /\ pc' = "idle"
            /\ UNCHANGED <<matrix, c, picked>>
       ELSE \E ij \in {SelectPair(matrix, ItemIds(data))} :
            \E m_i \in {ij[1]}, m_j \in {ij[2]} :
            \E c_h \in {FindGroup(c, m_i)}, c_k \in {FindGroup(c, m_j)} :
            \E popped \in {Pop(matrix, m_i, m_j)} :
                /\ c' = MergeGroups(c, c_h, c_k)
                /\ picked' = Append(picked, ij)
                /\ IF m_i \in DOMAIN popped[m_j]
                   THEN /\ matrix' = Pop(popped, m_j, m_i)
                        /\ UNCHANGED <<pc, ret>>
                   ELSE \* matrix[m_j].pop(m_i) of a missing key
                        /\ matrix' = popped
                        /\ ret' = Raise("KeyError")
                        /\ pc' = "idle"
    /\ UNCHANGED <<op, g>>
    /\ EngineUnchanged

\* the while condition fails: return c
GroupReturn ==
    /\ pc = "loop"
    /\ ~LoopCond(c, g, matrix)
    /\ ret' = Return(c)
    /\ pc' = "idle"
    /\ UNCHANGED <<op, g, matrix, c, picked>>
    /\ EngineUnchanged

---------------------------------------------------------------------------
(* group_algorithm_same_size_best_approximation: the seeded round-robin     *)
(* strategy, as the specification describes it                              *)

\* the combinations of k of the positions from..n, in enumeration order
RECURSIVE Combinations(_, _, _)
Combinations(n, k, from) ==
    IF k = 0 THEN << <<>> >>
    ELSE IF from > n THEN <<>>
    ELSE LET with == Combinations(n, k - 1, from + 1)
         IN  [t \in 1..Len(with) |-> <<from>> \o with[t]]
             \o Combinations(n, k, from + 1)

\* the sum of the pairwise dissimilarities among items ids[1..], from pair
\* (i, j) on
RECURSIVE PairwiseSum(_, _, _, _)
PairwiseSum(m, ids, i, j) ==
    IF i >= Len(ids) THEN Zero
    ELSE IF j > Len(ids) THEN PairwiseSum(m, ids, i + 1, i + 2)
    ELSE RAdd(m[ids[i]][ids[j]], PairwiseSum(m, ids, i, j + 1))

\* the first combination with the least pairwise sum
RECURSIVE FirstLeast(_, _, _, _)
FirstLeast(m, combos, best, k) ==
    IF k > Len(combos) THEN best
    ELSE FirstLeast(m, combos,
                    IF RGt(PairwiseSum(m, best, 1, 2),
                           PairwiseSum(m, combos[k], 1, 2))
                    THEN combos[k] ELSE best,
                    k + 1)

\* seed selection: the ids of the most homogeneous combination of gg items
SeedSelection(m, order, gg) ==
    LET combos == Combinations(Len(order), gg, 1)
        ids == [t \in 1..Len(combos) |->
                    [x \in 1..gg |-> order[combos[t][x]]]]
    IN  FirstLeast(m, ids, ids[1], 2)

\* each seed is the sole member of its own group, numbered from 0 in the
\* order of the seed combination
SeedGroups(seeds) == Built([k \in 0..(Len(seeds) - 1) |-> <<seeds[k + 1]>>])

AllItems(order, seeds) == order

\* the items that are no seeds, in input order
InitialUngrouped(order, seeds) ==
    SelectSeq(order, LAMBDA x : x \notin Range(seeds))

\* every group is unassigned when a round starts
AllGroups(cc) == [k \in 1..Cardinality(DOMAIN cc) |-> k - 1]

\* the cumulative dissimilarity of an item to the members of a group
RECURSIVE Cumulative(_, _, _, _)
Cumulative(m, item, members, k) ==
    IF k > Len(members) THEN Zero
    ELSE RAdd(m[item][members[k]], Cumulative(m, item, members, k + 1))

\* the (item, group) pairs, ungrouped items outer, unassigned groups inner
ItemGroupPairs(items, groups) ==
    [t \in 1..(Len(items) * Len(groups)) |->
        <<items[((t - 1) \div Len(groups)) + 1],
          groups[((t - 1) % Len(groups)) + 1]>>]

\* the first pair with the greatest cumulative dissimilarity
RECURSIVE FirstGreatest(_, _, _, _, _)
FirstGreatest(m, cc, pairs, best, k) ==
    IF k > Len(pairs) THEN best
    ELSE FirstGreatest(m, cc, pairs,
            IF RGt(Cumulative(m, pairs[k][1], cc[pairs[k][2]], 1),
                   Cumulative(m, best[1], cc[best[2]], 1))
            THEN pairs[k] ELSE best,
            k + 1)

SelectAssignment(m, cc, items, groups) ==
    LET pairs == ItemGroupPairs(items, groups)
    IN  FirstGreatest(m, cc, pairs, pairs[1], 2)

Remove(seq, x) == SelectSeq(seq, LAMBDA y : y # x)

SameGroupAgain(groups, grp) == groups

\* the group that was served leaves this round's unassigned groups
Served(groups, grp) == Remove(groups, grp)

\* group_algorithm_same_size_best_approximation(gg), up to the rounds
SameSizeBegin(gg) ==
    /\ pc = "idle"
    /\ op' = "same_size"
    /\ g' = gg
    /\ picked' = <<>>
    /\ IF gg < 1 \/ gg > Len(data)
       THEN /\ ret' = Raise(IF gg < 1 THEN "InvalidGroupCount"
                                      ELSE "TooManyGroups")
            /\ pc' = "idle"
            /\ matrix' = <<>> /\ c' = <<>>
            /\ ungrouped' = <<>> /\ unassigned' = <<>>
       ELSE \E dm \in {difference_matrix(data, nprops, cprops)} :
            IF dm.kind = "raise"
            THEN /\ ret' = dm
                 /\ pc' = "idle"
                 /\ matrix' = <<>> /\ c' = <<>>
                 /\ ungrouped' = <<>> /\ unassigned' = <<>>
            ELSE \E seeds \in {SeedSelection(dm.val, ItemIds(data), gg)} :
                 /\ ret' = NoCall
                 /\ pc' = "round"
                 /\ matrix' = dm.val
                 /\ c' = SeedGroups(seeds)
                 /\ ungrouped' = InitialUngrouped(ItemIds(data), seeds)
                 /\ unassigned' = AllGroups(SeedGroups(seeds))
    /\ UNCHANGED <<data, nprops, cprops, args, dp, ctor, built>>

\* one assignment of a round; a new round starts once no group is left
\* unassigned
SameSizeAssign ==
    /\ pc = "round"
    /\ ungrouped # <<>>
    /\ \E ig \in {SelectAssignment(matrix, c, ungrouped, unassigned)} :
        /\ c' = [c EXCEPT ![ig[2]] = Append(@, ig[1])]
        /\ picked' = Append(picked, ig)
        /\ ungrouped' = Remove(ungrouped, ig[1])
        /\ \E rest \in {Served(unassigned, ig[2])} :
            unassigned' = IF rest = <<>> THEN AllGroups(c) ELSE rest
    /\ UNCHANGED <<pc, op, ret, g, matrix>>
    /\ UNCHANGED <<data, nprops, cprops, args, dp, ctor, built>>

\* no ungrouped item remains: the groups are the result
SameSizeReturn ==
    /\ pc = "round"
    /\ ungrouped = <<>>
    /\ ret' = Return(c)
    /\ pc' = "idle"
    /\ UNCHANGED <<op, g, matrix, c, picked, ungrouped, unassigned>>
    /\ UNCHANGED <<data, nprops, cprops, args, dp, ctor, built>>

---------------------------------------------------------------------------
(* DataProperties *)

\* Optional[...] arguments of the constructor
Absent == [some |-> FALSE, val |-> <<>>]
Some(v) == [some |-> TRUE, val |-> v]

Property(k) == [key |-> k]

\* DataProperties._get_properties without the randomizer property
GetPropertiesNoRandomizer(values) ==
    (IF values.identifier_prop.some
        THEN <<values.identifier_prop.val>> ELSE <<>>)
    \o (IF values.numeric_props.some THEN values.numeric_props.val ELSE <<>>)
    \o (IF values.categorical_props.some
        THEN values.categorical_props.val ELSE <<>>)

\* DataProperties._get_properties: the identifier, the numeric, the
\* categorical and the randomizer properties that are given, in that order
GetProperties(values) ==
    (IF values.identifier_prop.some
        THEN <<values.identifier_prop.val>> ELSE <<>>)
    \o (IF values.numeric_props.some THEN values.numeric_props.val ELSE <<>>)
    \o (IF values.categorical_props.some
        THEN values.categorical_props.val ELSE <<>>)
    \o (IF values.randomizer_prop.some
        THEN <<values.randomizer_prop.val>> ELSE <<>>)

\* DataProperties.check_keys_unique: TRUE when the validator raises
KeysNotUnique(values) ==
    LET props == GetProperties(values)
        keys == [i \in 1..Len(props) |-> props[i].key]
    IN  Len(keys) # Cardinality(Range(keys))

\* DataProperties(identifier_prop, numeric_props, categorical_props,
\*                randomizer_prop)
NewDataProperties ==
    /\ dp.kind = "none"
    /\ dp' = IF KeysNotUnique(args) THEN Raise("ValueError") ELSE Return(args)
    /\ UNCHANGED <<data, nprops, cprops, pc, op, ret, g, matrix, c, picked,
                   args, ungrouped, unassigned, ctor, built>>

---------------------------------------------------------------------------
(* The value types of data_properties.py and grouping.py *)

\* ValuePair.check_ordering, the root validator ValuePair and its subclass
\* Boundaries run in data_properties.py
check_ordering(lower, upper) ==
    IF RGt(lower, upper) THEN Raise("ValueError")
    ELSE Return([lower |-> lower, upper |-> upper])

\* Boundaries(lower, upper) with both edges inclusive, as handed to
\* RestrictedFloat
InclusiveBoundaries(lower, upper) ==
    [lower |-> lower, upper |-> upper,
     lower_inclusive |-> TRUE, upper_inclusive |-> TRUE]

\* RestrictedFloat.__new__(cls, value, b), the same in both modules
RestrictedFloat(value, b) ==
    IF \/ (b.lower_inclusive /\ RGt(b.lower, value))
       \/ (~b.lower_inclusive /\ RLe(value, b.lower))
       \/ (b.upper_inclusive /\ RGt(value, b.upper))
       \/ (~b.upper_inclusive /\ RLe(b.upper, value))
    THEN Raise("ValueError")
    ELSE Return(value)

\* data_properties.Weight.__new__
Weight(value) ==
    RestrictedFloat(value, InclusiveBoundaries(Int2Rat(-1), One))

\* grouping.Weight.__new__
GroupingWeight(value) == RestrictedFloat(value, InclusiveBoundaries(Zero, One))

TypesUnchanged ==
    UNCHANGED <<data, nprops, cprops, pc, op, ret, g, matrix, c, picked,
                args, dp, ungrouped, unassigned, ctor>>

\* data_properties.ValuePair(lower, upper)
NewValuePair ==
    /\ built.kind = "none"
    /\ ctor.module = "data_properties" /\ ctor.class = "ValuePair"
    /\ built' = check_ordering(ctor.args[1], ctor.args[2])
    /\ TypesUnchanged

\* data_properties.Boundaries(lower, upper): ValuePair's validator is
\* inherited
NewBoundaries ==
    /\ built.kind = "none"
    /\ ctor.module = "data_properties" /\ ctor.class = "Boundaries"
    /\ built' = check_ordering(ctor.args[1], ctor.args[2])
    /\ TypesUnchanged

\* grouping.Boundaries(lower, upper): a dataclass with no validator
NewGroupingBoundaries ==
    /\ built.kind = "none"
    /\ ctor.module = "grouping" /\ ctor.class = "Boundaries"
    /\ built' = Return([lower |-> ctor.args[1], upper |-> ctor.args[2]])
    /\ TypesUnchanged

\* data_properties.Weight(value)
NewWeight ==
    /\ built.kind = "none"
    /\ ctor.module = "data_properties" /\ ctor.class = "Weight"
    /\ built' = Weight(ctor.args[1])
    /\ TypesUnchanged

\* grouping.Weight(value)
NewGroupingWeight ==
    /\ built.kind = "none"
    /\ ctor.module = "grouping" /\ ctor.class = "Weight"
    /\ built' = GroupingWeight(ctor.args[1])
    /\ TypesUnchanged

\* Connection(value_a, value_b, similarity)
Connection(a, b, sim) == [value_a |-> a, value_b |-> b, similarity |-> sim]

\* sims[a][b] = sim on a defaultdict(dict)
SetSim(sims, a, b, sim) ==
    (a :> ((b :> sim) @@ (IF a \in DOMAIN sims THEN sims[a] ELSE <<>>))) @@ sims

\* the body of the loop over the connections with its second assignment
\* left out
ConnectOneWay(sims, con) ==
    SetSim(sims, con.value_a, con.value_b, con.similarity)

\* the body of the loop over the connections:
\*   sims[con.value_a][con.value_b] = con.similarity
\*   sims[con.value_b][con.value_a] = con.similarity
Connect(sims, con) ==
    SetSim(SetSim(sims, con.value_a, con.value_b, con.similarity),
           con.value_b, con.value_a, con.similarity)

RECURSIVE ConnectAll(_, _, _)
ConnectAll(sims, cons, k) ==
    IF k > Len(cons) THEN sims
    ELSE ConnectAll(Connect(sims, cons[k]), cons, k + 1)

\* CategoricalProperty.__post_init_post_parse__: the similarities set
post_init_post_parse(connections) ==
    IF connections.some
    THEN Some(ConnectAll(<<>>, connections.val, 1))
    ELSE Absent

\* CategoricalProperty.check_mapping_commutative on the similarities the
\* validated values hold: TRUE when it returns, FALSE when it raises
check_mapping_commutative(sims) ==
    \/ ~sims.some
    \/ \A r \in DOMAIN sims.val : \A cc \in DOMAIN sims.val[r] :
            r \in DOMAIN sims.val[cc]

\* data_properties.CategoricalProperty(key, connections=...): the root
\* validator runs over the field defaults (similarities = None), then
\* __post_init_post_parse__ builds the table
NewCategoricalProperty ==
    /\ built.kind = "none"
    /\ ctor.module = "data_properties" /\ ctor.class = "CategoricalProperty"
    /\ built' = IF check_mapping_commutative(Absent)
                THEN Return(post_init_post_parse(ctor.args[1]))
                ELSE Raise("ValueError")
    /\ TypesUnchanged

---------------------------------------------------------------------------
(* Engines *)

IdOf == <<"a", "b", "c", "d", "e", "f">>

Half == Rat(1, 2)
Quarter == Rat(1, 4)

NumericProperty(w, mb, sb) ==
    [weight |-> w, measurement_bounds |-> mb, scale_bounds |-> sb]

CategoricalProperty(w, sims) == [weight |-> w, similarities |-> sims]

UnitScale == Boundaries(Zero, One)

\* the batches of at most n raw values
Batches(n) == UNION {[1..k -> 0..MaxVal] : k \in 1..n}

\* an engine over one numeric property, to be grouped
GroupEngine(v, w, mb) ==
    [data |-> Built([i \in DOMAIN v |->
                 [id |-> IdOf[i], num |-> <<Int2Rat(v[i])>>, cat |-> <<>>]]),
     nprops |-> <<NumericProperty(w, mb, UnitScale)>>,
     cprops |-> <<>>]

GroupWeights == {One, Int2Rat(-1)}

GroupBounds == {None, Boundaries(Zero, Int2Rat(MaxVal))}

\* similarities = None
NoSims == <<>>
\* a table relating two different values, both ways
SymSims == ("x" :> ("y" :> Quarter)) @@ ("y" :> ("x" :> Quarter))
\* a table relating a value to itself
SelfSims == ("x" :> ("x" :> Half))
\* a symmetric table that also relates a value to itself
SelfSymSims ==
    ("x" :> (("x" :> Half) @@ ("y" :> Quarter))) @@ ("y" :> ("x" :> Quarter))
\* a one-way table
OneWaySims == ("x" :> ("y" :> Quarter))

SimTables == {NoSims, SymSims, SelfSims, SelfSymSims, OneWaySims}

CatValues == {"x", "y"}

NumericSchemas ==
    {<<>>} \cup
    { <<NumericProperty(w, mb, sb)>> :
        w \in {Half, One, Int2Rat(-1)},
        mb \in {None, Boundaries(Zero, Int2Rat(MaxVal)), Boundaries(One, One)},
        sb \in {UnitScale, Boundaries(One, Int2Rat(3))} }

CategoricalSchemas ==
    {<<>>} \cup
    { <<CategoricalProperty(w, sims)>> : w \in {Half, One}, sims \in SimTables }

\* the batches of at most MaxM items with a raw numeric and a categorical
\* value each
GridBatches == UNION {[1..k -> (0..MaxVal) \X CatValues] : k \in 1..MaxM}

\* an engine over at most one numeric and one categorical property, whose
\* grid and matrix are inspected
GridEngine(it, np, cp) ==
    [data |-> Built([i \in DOMAIN it |->
                 [id |-> IdOf[i],
                  num |-> IF np = <<>> THEN <<>> ELSE <<Int2Rat(it[i][1])>>,
                  cat |-> IF cp = <<>> THEN <<>> ELSE <<it[i][2]>>]]),
     nprops |-> np,
     cprops |-> cp]

\* the engines of tests/test_heterogeneous_groups.py
BUnique ==
    [data |-> << [id |-> "a", num |-> <<>>, cat |-> <<"left">>],
                 [id |-> "b", num |-> <<>>, cat |-> <<"right">>],
                 [id |-> "c", num |-> <<>>, cat |-> <<"left">>] >>,
     nprops |-> <<>>,
     cprops |-> <<CategoricalProperty(One, NoSims)>>]

ASplit ==
    [data |-> << [id |-> "a", num |-> <<>>, cat |-> <<"left", "up">>],
                 [id |-> "b", num |-> <<>>, cat |-> <<"right", "up">>],
                 [id |-> "c", num |-> <<>>, cat |-> <<"left", "down">>] >>,
     nprops |-> <<>>,
     cprops |-> <<CategoricalProperty(One, NoSims),
                  CategoricalProperty(One, NoSims)>>]

Example ==
    [data |-> << [id |-> "id1", num |-> <<Int2Rat(2)>>, cat |-> <<"me", "val1">>],
                 [id |-> "id2", num |-> <<Int2Rat(7)>>, cat |-> <<"you", "val2">>] >>,
     nprops |-> <<NumericProperty(Rat(1, 10),
                                  Boundaries(Zero, Int2Rat(10)), UnitScale)>>,
     cprops |-> <<CategoricalProperty(One, NoSims),
                  CategoricalProperty(One,
                      ("val1" :> ("val2" :> Quarter)) @@
                      ("val2" :> ("val1" :> Quarter)))>>]

TenPercent ==
    [data |-> << [id |-> "a", num |-> <<Int2Rat(1), Int2Rat(2)>>,
                  cat |-> <<"left", "ye", "re">>],
                 [id |-> "b", num |-> <<Int2Rat(3), Int2Rat(4)>>,
                  cat |-> <<"right", "yee", "ree">>],
                 [id |-> "c", num |-> <<Int2Rat(1), Int2Rat(2)>>,
                  cat |-> <<"left", "yee", "re">>] >>,
     nprops |-> <<NumericProperty(One, Boundaries(Zero, Int2Rat(10)), UnitScale),
                  NumericProperty(One, None, UnitScale)>>,
     cprops |-> <<CategoricalProperty(One, NoSims),
                  CategoricalProperty(One,
                      ("ye" :> ("yee" :> Half)) @@ ("yee" :> ("ye" :> Half))),
                  CategoricalProperty(Quarter, NoSims)>>]

TestEngines == {BUnique, ASplit, Example, TenPercent}

---------------------------------------------------------------------------
(* Specifications *)

InitCalls ==
    /\ pc = "idle"
    /\ op = "none"
    /\ ret = NoCall
    /\ g = 0
    /\ matrix = <<>>
    /\ c = <<>>
    /\ picked = <<>>
    /\ ungrouped = <<>>
    /\ unassigned = <<>>
    /\ calls = 0
    /\ fresh = <<>>
    /\ ctor = <<>>
    /\ built = NoCall

\* the engine e, just constructed
NewEngine(e) ==
    /\ data = e.data
    /\ nprops = e.nprops
    /\ cprops = e.cprops

\* the calls of a behaviour are not recorded
HistoryUnchanged == UNCHANGED <<calls, fresh>>

\* a new engine that is grouped
Init ==
    /\ \/ \E v \in Batches(MaxN), w \in GroupWeights, mb \in GroupBounds :
              NewEngine(GroupEngine(v, w, mb))
       \/ \E e \in TestEngines : NewEngine(e)
    /\ InitCalls
    /\ args = <<>>
    /\ dp = NoCall

\* one call of group_algorithm_number on a new engine, with any group count
\* from 0 to one more than the number of items
Next ==
    \/ \E gg \in 0..(Len(data) + 1) :
            op = "none" /\ GroupBegin(gg) /\ HistoryUnchanged
    \/ GroupIter /\ HistoryUnchanged
    \/ GroupReturn /\ HistoryUnchanged

Spec == Init /\ [][Next]_vars

\* one call of the same-size strategy on a new engine, with any group count
\* from 0 to one more than the number of items
NextSame ==
    \/ \E gg \in 0..(Len(data) + 1) :
            op = "none" /\ SameSizeBegin(gg) /\ HistoryUnchanged
    \/ SameSizeAssign /\ HistoryUnchanged
    \/ SameSizeReturn /\ HistoryUnchanged

SpecSame == Init /\ [][NextSame]_vars

\* a new engine whose grid or matrix is asked for
InitGrid ==
    /\ \/ \E it \in GridBatches, np \in NumericSchemas,
             cp \in CategoricalSchemas :
              NewEngine(GridEngine(it, np, cp))
       \/ \E e \in TestEngines : NewEngine(e)
    /\ InitCalls
    /\ args = <<>>
    /\ dp = NoCall

NextGrid ==
    \/ op = "none" /\ ScaledGridCall /\ HistoryUnchanged
    \/ op = "none" /\ DifferenceMatrixCall /\ HistoryUnchanged

SpecGrid == InitGrid /\ [][NextGrid]_vars

\* engines on which several calls are made

\* the key of the call that is running or has finished
CallKey == <<op, g>>

\* when a call finishes for the first time its outcome is recorded
RecordOutcome ==
    fresh' = IF pc' = "idle" /\ CallKey' \notin DOMAIN fresh
             THEN fresh @@ (CallKey' :> ret')
             ELSE fresh

\* a call starts
CallMade == calls' = calls + 1 /\ RecordOutcome
\* a call goes on
CallGoesOn == calls' = calls /\ RecordOutcome

InitEngineCalls ==
    /\ \/ \E v \in Batches(MaxM), w \in GroupWeights, mb \in GroupBounds :
              NewEngine(GroupEngine(v, w, mb))
       \/ \E e \in TestEngines : NewEngine(e)
    /\ InitCalls
    /\ args = <<>>
    /\ dp = NoCall

\* any sequence of at most MaxCalls calls on one engine
NextCalls ==
    \/ calls < MaxCalls /\ ScaledGridCall /\ CallMade
    \/ calls < MaxCalls /\ DifferenceMatrixCall /\ CallMade
    \/ \E gg \in 0..(Len(data) + 1) :
            calls < MaxCalls /\ GroupBegin(gg) /\ CallMade
    \/ GroupIter /\ CallGoesOn
    \/ GroupReturn /\ CallGoesOn

SpecCalls == InitEngineCalls /\ [][NextCalls]_vars

Keys == {"id", "n", "c"}

PropertyLists ==
    {Absent} \cup
    { Some(l) : l \in UNION {[1..k -> {Property(x) : x \in Keys}] :
                                k \in 0..MaxProps} }

\* the arguments of a DataProperties that is about to be constructed
InitProps ==
    /\ args \in [identifier_prop : {Some(Property(x)) : x \in Keys},
                  numeric_props : PropertyLists,
                  categorical_props : PropertyLists,
                  randomizer_prop :
                      {Absent} \cup {Some(Property(x)) : x \in Keys}]
    /\ dp = NoCall
    /\ data = <<>>
    /\ nprops = <<>>
    /\ cprops = <<>>
    /\ InitCalls

NextProps == NewDataProperties /\ HistoryUnchanged

SpecProps == InitProps /\ [][NextProps]_vars

\* the numbers handed to the constructors of the value types
TypeValues == {Rat(k, 2) : k \in (-MaxHalves)..MaxHalves}

\* the connections between two of the categorical values
Connections ==
    {Connection(a, b, sim) : a \in CatValues, b \in CatValues,
                             sim \in {Quarter, Half}}

\* connections = None and the lists of at most MaxCons connections
ConnectionLists ==
    {Absent} \cup
    {Some(cs) : cs \in UNION {[1..k -> Connections] : k \in 0..MaxCons}}

Constructions ==
    [module : {"data_properties", "grouping"}, class : {"Boundaries"},
     args : TypeValues \X TypeValues]
    \cup [module : {"data_properties"}, class : {"ValuePair"},
          args : TypeValues \X TypeValues]
    \cup [module : {"data_properties", "grouping"}, class : {"Weight"},
          args : {<<v>> : v \in TypeValues}]
    \cup [module : {"data_properties"}, class : {"CategoricalProperty"},
          args : {<<cs>> : cs \in ConnectionLists}]

\* a value type that is about to be constructed
InitTypes ==
    /\ ctor \in Constructions
    /\ built = NoCall
    /\ data = <<>> /\ nprops = <<>> /\ cprops = <<>>
    /\ args = <<>> /\ dp = NoCall
    /\ pc = "idle" /\ op = "none" /\ ret = NoCall /\ g = 0
    /\ matrix = <<>> /\ c = <<>> /\ picked = <<>>
    /\ ungrouped = <<>> /\ unassigned = <<>>
    /\ calls = 0 /\ fresh = <<>>

NextTypes ==
    \/ NewValuePair /\ HistoryUnchanged
    \/ NewBoundaries /\ HistoryUnchanged
    \/ NewGroupingBoundaries /\ HistoryUnchanged
    \/ NewWeight /\ HistoryUnchanged
    \/ NewGroupingWeight /\ HistoryUnchanged
    \/ NewCategoricalProperty /\ HistoryUnchanged

SpecTypes == InitTypes /\ [][NextTypes]_vars

---------------------------------------------------------------------------
(* Properties of group_algorithm_number, checked under Spec *)

NumItems == Len(data)

\* the running or finished call has built its group map
GroupMapBuilt == op = "group" /\ DOMAIN c # {}

\* the places (group id, position) of the group map that hold item id
PlacesOf(cc, id) ==
    {kp \in UNION {{k} \X DOMAIN cc[k] : k \in DOMAIN cc} :
        cc[kp[1]][kp[2]] = id}

\* every item id is at exactly one place of the group map, and the group
\* map holds nothing but item ids
Partitions(cc, d) ==
    /\ \A id \in Range(ItemIds(d)) : Cardinality(PlacesOf(cc, id)) = 1
    /\ \A k \in DOMAIN cc : Range(cc[k]) \subseteq Range(ItemIds(d))

\* C1: for 1 <= g <= n, the group map of group_algorithm_number partitions
\* the item ids after every loop iteration, and so does the returned map:
\* each id is in exactly one group exactly once and no other id appears.
C1_GroupsPartitionIds ==
    (GroupMapBuilt /\ g \in 1..NumItems) =>
        /\ Partitions(c, data)
        /\ (pc = "idle" /\ ret.kind = "return") =>
                (ret.val = c /\ Partitions(ret.val, data))

\* C1 witness: a call with 1 <= g < n on three or more items has returned
\* after merging groups.
C1_Witness ==
    /\ op = "group" /\ pc = "idle" /\ ret.kind = "return"
    /\ NumItems >= 3 /\ g \in 1..(NumItems - 1)
    /\ Len(picked) >= 2
    /\ \E k \in DOMAIN ret.val : Len(ret.val[k]) >= 2
    /\ Cardinality(DOMAIN ret.val) = g

\* C5 as claimed: a call with num_groups < 1 fails with InvalidGroupCount
\* before any merge or removal; it never enters the loop, never returns a
\* grouping and never fails with another fault.
C5_InvalidGroupCount ==
    (op = "group" /\ g < 1) =>
        /\ pc = "idle"
        /\ ret.kind = "raise" /\ ret.exc = "InvalidGroupCount"
        /\ picked = <<>>

\* C6 as claimed: a call with num_groups greater than the number of items,
\* on an engine whose matrix can be computed, fails with TooManyGroups and
\* returns no grouping.
C6_TooManyGroups ==
    (GroupMapBuilt /\ g > NumItems /\ pc = "idle") =>
        (ret.kind = "raise" /\ ret.exc = "TooManyGroups")

CeilDiv(a, b) == (a + b - 1) \div b

\* C7 as claimed: for 1 <= g <= n no group of the group map ever has more
\* than ceil(n / g) members.
C7_GroupSizeCapped ==
    (GroupMapBuilt /\ g \in 1..NumItems) =>
        \A k \in DOMAIN c : Len(c[k]) <= CeilDiv(NumItems, g)

\* an iteration of the loop selects a pair
PairSelected == pc = "loop" /\ picked' # picked

\* the pair that iteration selected
Selected == picked'[Len(picked')]

\* the places of the keys of a row that hold the row's greatest value
Holders(row, keys) ==
    {i \in 1..Len(keys) :
        \A j \in 1..Len(keys) : ~RGt(row[keys[j]], row[keys[i]])}

\* the greatest value of the row of item order[r]
RowTop(m, order, r) ==
    LET row == m[order[r]]
        keys == RowKeys(order, row)
    IN  row[keys[SetMin(Holders(row, keys))]]

\* the first place of a greatest value of tops
FirstTop(tops) ==
    SetMin({r \in DOMAIN tops :
        \A q \in DOMAIN tops : ~RGt(tops[q], tops[r])})

\* the first row, in input order, whose greatest value is the greatest of
\* the matrix
FirstTopRow(m, order) ==
    FirstTop(Built([r \in 1..Len(order) |-> RowTop(m, order, r)]))

\* the pair of the first top row and the first key holding its maximum
FirstEncounteredPair(m, order) ==
    LET r == FirstTopRow(m, order)
        keys == RowKeys(order, m[order[r]])
    IN  <<order[r], keys[SetMin(Holders(m[order[r]], keys))]>>

\* the pair of the first top row and the last key holding its maximum
LastInRowPair(m, order) ==
    LET r == FirstTopRow(m, order)
        keys == RowKeys(order, m[order[r]])
    IN  <<order[r], keys[SetMax(Holders(m[order[r]], keys))]>>

C15_NeverDiagonal ==
    op = "group" => \A t \in DOMAIN picked : picked[t][1] # picked[t][2]

\* C16 as claimed: for 1 <= g <= n the strategy ends normally, by returning
\* its groups, after at most n * (n - 1) / 2 iterations.
C16_TerminatesNormally ==
    (GroupMapBuilt /\ g \in 1..NumItems) =>
        /\ 2 * Len(picked) <= NumItems * (NumItems - 1)
        /\ pc = "idle" => ret.kind = "return"

\* the id of the group of cc that holds item id
GroupOf(cc, id) == CHOOSE k \in DOMAIN cc : id \in Range(cc[k])

\* the group map after the merges of the pairs selected from the t-th on:
\* the members of j's group go to the end of i's group, and the id of j's
\* group is discarded
RECURSIVE MergeOrder(_, _, _)
MergeOrder(cc, pairs, t) ==
    IF t > Len(pairs) THEN cc
    ELSE LET gi == GroupOf(cc, pairs[t][1])
             gj == GroupOf(cc, pairs[t][2])
         IN  MergeOrder(
                IF gi = gj THEN cc
                ELSE [x \in DOMAIN cc \ {gj} |->
                        IF x = gi THEN cc[gi] \o cc[gj] ELSE cc[x]],
                pairs, t + 1)

\* every item alone in the group numbered by its input position
Singletons == [k \in 0..(NumItems - 1) |-> <<data[k + 1].id>>]

\* C17: in every state of group_algorithm_number each group id is an input
\* position, the first member of group k is the item at position k, and
\* the group map is the singleton groups merged in the order of the
\* selected pairs, the second group appended to the first.
C17_GroupIdsAndMergeOrder ==
    GroupMapBuilt =>
        /\ \A k \in DOMAIN c :
            k \in 0..(NumItems - 1) /\ c[k][1] = data[k + 1].id
        /\ c = MergeOrder(Singletons, picked, 1)

\* C17 witness: a call returned a group, not the first, that took its
\* three members in two merges.
C17_Witness ==
    /\ op = "group" /\ pc = "idle" /\ ret.kind = "return"
    /\ \E k \in DOMAIN ret.val : k >= 1 /\ Len(ret.val[k]) >= 3
    /\ Len(picked) >= 2

---------------------------------------------------------------------------
(* Properties of scaled_grid and difference_matrix, checked under SpecGrid *)

MatrixReturned == op = "difference_matrix" /\ ret.kind = "return"
GridReturned == op = "scaled_grid" /\ ret.kind = "return"

\* C2 as claimed: every diagonal entry of the returned matrix is 0,
\* whatever the similarity tables.
C2_DiagonalZero ==
    MatrixReturned => \A i \in DOMAIN ret.val : ret.val[i][i] = Zero

\* b is a key of sims[a] exactly when a is a key of sims[b], with one value
SymmetricTable(sims) ==
    \A a \in DOMAIN sims : \A b \in DOMAIN sims[a] :
        /\ b \in DOMAIN sims
        /\ a \in DOMAIN sims[b]
        /\ sims[b][a] = sims[a][b]

NonNegativeSymmetricSchema ==
    /\ \A p \in DOMAIN nprops : RLe(Zero, nprops[p].weight)
    /\ \A p \in DOMAIN cprops : RLe(Zero, cprops[p].weight)
    /\ \A p \in DOMAIN cprops : SymmetricTable(cprops[p].similarities)

\* C3: with every weight >= 0 and every similarity table symmetric, the
\* returned matrix is symmetric: matrix[i][j] = matrix[j][i].
C3_MatrixSymmetric ==
    (MatrixReturned /\ NonNegativeSymmetricSchema) =>
        \A i \in DOMAIN ret.val : \A j \in DOMAIN ret.val :
            ret.val[i][j] = ret.val[j][i]

\* C3 witness: a matrix over two items that differ in their numeric and in
\* their categorical value, under a numeric property and a categorical
\* property with a symmetric table relating the two values.
C3_Witness ==
    /\ MatrixReturned /\ NonNegativeSymmetricSchema
    /\ NumItems = 2 /\ Len(nprops) = 1 /\ Len(cprops) = 1
    /\ cprops[1].similarities = SymSims
    /\ data[1].cat # data[2].cat /\ data[1].num # data[2].num
    /\ ret.val["a"]["b"] # Zero

\* the difference d the claim gives a categorical pair of values
ClaimedDifference(sims, vi, vj) ==
    IF DOMAIN sims # {} /\ vi \in DOMAIN sims /\ vj \in DOMAIN sims[vi]
    THEN RSub(One, sims[vi][vj])
    ELSE IF vi = vj THEN Zero ELSE One

RECURSIVE ClaimedCategoricalSum(_, _, _, _)
ClaimedCategoricalSum(cp, vi, vj, p) ==
    IF p > Len(cp) THEN Zero
    ELSE RAdd(RMul(cp[p].weight,
                   ClaimedDifference(cp[p].similarities, vi[p], vj[p])),
              ClaimedCategoricalSum(cp, vi, vj, p + 1))

\* the items of the batch with id i (the last one is the one retained)
ItemOf(i) ==
    data[CHOOSE k \in 1..NumItems :
            data[k].id = i /\ \A k2 \in 1..NumItems : data[k2].id = i => k2 <= k]

\* C4 as claimed: a categorical property contributes weight * d with
\* d = 1 - similarity when the table relates the two values, 0 when it does
\* not and the values are equal, 1 otherwise; so an engine with categorical
\* properties only has entries sum(weight * d) / count, and the worked
\* scenario has the entry 0.6 between id1 and id2.
C4_CategoricalContribution ==
    /\ (MatrixReturned /\ Len(nprops) = 0) =>
        \A i \in DOMAIN ret.val : \A j \in DOMAIN ret.val :
            ret.val[i][j] =
                RDiv(ClaimedCategoricalSum(cprops, ItemOf(i).cat,
                                           ItemOf(j).cat, 1),
                     Int2Rat(Len(cprops)))
    /\ (MatrixReturned /\ data = Example.data /\ nprops = Example.nprops
            /\ cprops = Example.cprops) =>
        ret.val["id1"]["id2"] = Rat(3, 5)

\* the numeric contribution the claim gives property hnp for grid values
\* gi and gj: weight * |gi - gj| / (scale upper - scale lower)
ClaimedNumericContribution(hnp, gi, gj) ==
    LET distance == IF RGt(gi, gj) THEN RSub(gi, gj) ELSE RSub(gj, gi)
    IN  RDiv(RMul(hnp.weight, distance),
             RSub(hnp.scale_bounds.upper, hnp.scale_bounds.lower))

RECURSIVE ClaimedNumericSum(_, _, _)
ClaimedNumericSum(gi, gj, p) ==
    IF p > Len(nprops) THEN Zero
    ELSE RAdd(ClaimedNumericContribution(nprops[p], gi.num[p], gj.num[p]),
              ClaimedNumericSum(gi, gj, p + 1))

\* the grid the matrix is computed from
Grid == scaled_grid(data, nprops, cprops).val

\* C18: every entry of the returned matrix, multiplied by the number of
\* numeric and categorical properties, is the sum over the numeric
\* properties of weight * |grid[i][p] - grid[j][p]| / (scale upper - scale
\* lower) plus the sum of the categorical contributions.
C18_EntryIsAveragedSum ==
    MatrixReturned =>
        \A grid \in {Grid} :
        \A i \in DOMAIN ret.val : \A j \in DOMAIN ret.val :
            RMul(ret.val[i][j], Int2Rat(Len(nprops) + Len(cprops)))
                = RAdd(ClaimedNumericSum(grid[i], grid[j], 1),
                       SumCategorical(cprops, grid[i], grid[j], 1))

\* C18 witness: the matrix of the ten_percent engine (two numeric and three
\* categorical properties) has the entries its test expects.
C18_Witness ==
    /\ MatrixReturned /\ data = TenPercent.data /\ nprops = TenPercent.nprops
    /\ ret.val["a"]["b"] = Rat(59, 100)
    /\ ret.val["b"]["c"] = Rat(49, 100)
    /\ ret.val["a"]["c"] = Rat(1, 10)

\* numeric property p has no explicit measurement bounds
Derived(p) == ~nprops[p].measurement_bounds.present

\* the least and the greatest raw value of property p in the batch
BatchMin(p) ==
    CHOOSE v \in Range(Column(data, p)) :
        \A w \in Range(Column(data, p)) : RLe(v, w)
BatchMax(p) ==
    CHOOSE v \in Range(Column(data, p)) :
        \A w \in Range(Column(data, p)) : RLe(w, v)

\* in the returned grid the items holding the least raw value of p are at
\* the lower scale bound and the items holding the greatest are at the upper
MinMaxOnScale(p) ==
    \A k \in 1..NumItems :
        /\ data[k].num[p] = BatchMin(p) =>
            ret.val[data[k].id].num[p] = nprops[p].scale_bounds.lower
        /\ data[k].num[p] = BatchMax(p) =>
            ret.val[data[k].id].num[p] = nprops[p].scale_bounds.upper

DegenerateBounds(p) ==
    IF Derived(p) THEN BatchMin(p) = BatchMax(p)
    ELSE nprops[p].measurement_bounds.lower = nprops[p].measurement_bounds.upper

\* C9 as claimed: when the bounds a numeric property is scaled from
\* coincide, scaled_grid fails with DegenerateBoundsError.
C9_DegenerateBoundsError ==
    (op = "scaled_grid" /\ \E p \in DOMAIN nprops : DegenerateBounds(p)) =>
        (ret.kind = "raise" /\ ret.exc = "DegenerateBoundsError")

---------------------------------------------------------------------------
(* Properties of DataProperties, checked under SpecProps *)

\* the properties handed to the constructor, each with its role and place
Slots ==
    {<<"identifier", 1, args.identifier_prop.val.key>>}
    \cup (IF args.numeric_props.some
          THEN {<<"numeric", i, args.numeric_props.val[i].key>> :
                    i \in DOMAIN args.numeric_props.val}
          ELSE {})
    \cup (IF args.categorical_props.some
          THEN {<<"categorical", i, args.categorical_props.val[i].key>> :
                    i \in DOMAIN args.categorical_props.val}
          ELSE {})
    \cup (IF args.randomizer_prop.some
          THEN {<<"randomizer", 1, args.randomizer_prop.val.key>>}
          ELSE {})

SomeKeyShared == \E s \in Slots : \E t \in Slots : s # t /\ s[3] = t[3]

---------------------------------------------------------------------------
(* Properties of the same-size strategy, checked under SpecSame *)

\* the same-size call has built its groups
SameGroupsBuilt == op = "same_size" /\ DOMAIN c # {}

SameReturned == op = "same_size" /\ pc = "idle" /\ ret.kind = "return"

GroupSizes(cc) == {Len(cc[k]) : k \in DOMAIN cc}

FloorDiv(a, b) == a \div b

\* C11: for 1 <= g <= n the groups the same-size strategy returns have
\* sizes that differ by at most 1: each has floor(n / g) or ceil(n / g)
\* members; and while the rounds run no group is two members ahead.
C11_SizesDifferByOne ==
    /\ (SameGroupsBuilt /\ g \in 1..NumItems) =>
        \A h \in DOMAIN c : \A k \in DOMAIN c : Len(c[h]) - Len(c[k]) <= 1
    /\ (SameReturned /\ g \in 1..NumItems) =>
        GroupSizes(ret.val) \subseteq
            {FloorDiv(NumItems, g), CeilDiv(NumItems, g)}

\* C11 witness: four items were returned in three groups, of sizes 2, 1, 1
C11_Witness ==
    /\ SameReturned /\ NumItems = 4 /\ g = 3
    /\ GroupSizes(ret.val) = {1, 2}
    /\ Len(picked) = 1

\* C12: for 1 <= g <= n the same-size strategy returns exactly g groups
\* that partition the item ids; the seeds are the first members of the
\* groups and every other item was assigned to exactly one group.
C12_SameSizePartition ==
    /\ (SameGroupsBuilt /\ g \in 1..NumItems) =>
        /\ DOMAIN c = 0..(g - 1)
        /\ \A id \in Range(ItemIds(data)) :
            Cardinality(PlacesOf(c, id))
                = IF id \in Range(ungrouped) THEN 0 ELSE 1
        /\ \A k \in DOMAIN c : Range(c[k]) \subseteq Range(ItemIds(data))
        /\ \A t \in DOMAIN picked : PlacesOf(c, picked[t][1]) # {}
    /\ (op = "same_size" /\ g \in 1..NumItems /\ pc = "idle"
            /\ ret.kind # "raise") =>
        /\ ret = Return(c)
        /\ ungrouped = <<>>
        /\ Partitions(ret.val, data)
        /\ Len(picked) = NumItems - g

\* C12 witness: the b_unique engine was returned in the two groups its test
\* expects, a and c being the seeds.
C12_Witness ==
    /\ SameReturned /\ data = BUnique.data /\ g = 2
    /\ ret.val = (0 :> <<"a", "b">>) @@ (1 :> <<"c">>)

---------------------------------------------------------------------------
(* Properties of sequences of calls, checked under SpecCalls *)

\* a call has finished
CallFinished == op # "none" /\ pc = "idle"

---------------------------------------------------------------------------
(* The group count of group_algorithm_number, checked under Spec *)

\* a call with 1 <= g <= n whose difference matrix was built
GroupingOverMatrix == GroupMapBuilt /\ g \in 1..NumItems

\* C22 as claimed: over a complete difference matrix and for 1 <= g <= n
\* the group count never drops below g, the call ends by returning, and it
\* returns exactly g groups.
C22_ExactlyGGroups ==
    GroupingOverMatrix =>
        /\ Cardinality(DOMAIN c) >= g
        /\ pc = "idle" =>
              (ret.kind = "return" /\ Cardinality(DOMAIN ret.val) = g)

\* the working matrix of a call of group_algorithm_number exists
MatrixWorking == op = "group" /\ DOMAIN matrix # {}

\* for i # j, entry (i, j) is present exactly when entry (j, i) is
PresenceSymmetric ==
    \A i \in DOMAIN matrix : \A j \in DOMAIN matrix :
        i # j => (j \in DOMAIN matrix[i] <=> i \in DOMAIN matrix[j])

\* for i # j, entry (i, j) is absent only if an earlier iteration selected
\* i and j together
AbsentOnlySelected ==
    \A i \in DOMAIN matrix : \A j \in DOMAIN matrix :
        (i # j /\ j \notin DOMAIN matrix[i]) =>
            \E t \in DOMAIN picked : picked[t] \in {<<i, j>>, <<j, i>>}

\* matrix[m_i].pop(m_j) and matrix[m_j].pop(m_i) found their entries
RemovalsFound == ~(pc = "idle" /\ ret = Raise("KeyError"))

\* C23 as claimed: in every state of the loop the working matrix is
\* pair-symmetric in its remaining entries, an entry is absent only if its
\* pair was selected earlier, and so the two removals of an iteration never
\* refer to a missing entry.
C23_PairSymmetricRemovals ==
    MatrixWorking =>
        PresenceSymmetric /\ AbsentOnlySelected /\ RemovalsFound

---------------------------------------------------------------------------
(* difference_matrix without properties, checked under SpecGrid *)

MatrixAsked == op = "difference_matrix" /\ pc = "idle"

\* C24 as claimed: for an engine with no numeric and no categorical
\* property and at least one record, difference_matrix returns the square
\* matrix over the item ids with every entry 0.
C24_NoPropertiesZeroMatrix ==
    (MatrixAsked /\ Len(nprops) = 0 /\ Len(cprops) = 0 /\ Len(data) >= 1) =>
        ret = Return([i \in Range(ItemIds(data)) |->
                        [j \in Range(ItemIds(data)) |-> Zero]])

---------------------------------------------------------------------------
(* Properties of the value types, checked under SpecTypes *)

BoundsPairMade ==
    built.kind # "none" /\ ctor.class \in {"ValuePair", "Boundaries"}

\* C19 as claimed: a bounds pair (ValuePair or Boundaries, of either module)
\* is constructed only with lower <= upper; with lower > upper the
\* constructor raises.
C19_BoundsOrdered ==
    BoundsPairMade =>
        /\ built.kind = "return" => RLe(built.val.lower, built.val.upper)
        /\ RGt(ctor.args[1], ctor.args[2]) => built.kind = "raise"

WeightMade == built.kind # "none" /\ ctor.class = "Weight"

\* C20 as claimed: a Weight, of either module, is constructed exactly when
\* its value is in [-1, 1], and the constructor raises otherwise.
C20_WeightRange ==
    WeightMade =>
        IF RLe(Int2Rat(-1), ctor.args[1]) /\ RLe(ctor.args[1], One)
        THEN built = Return(ctor.args[1])
        ELSE built.kind = "raise"

\* a CategoricalProperty was built from a list of connections
TableBuilt ==
    /\ ctor.class = "CategoricalProperty" /\ ctor.args[1].some
    /\ built.kind # "none"

\* the similarity table of the property built
Sims == built.val.val

\* C21: the similarity table of a CategoricalProperty built from a list of
\* connections is symmetric in keys and values: b is a key of sim[a]
\* exactly when a is a key of sim[b], and then sim[a][b] = sim[b][a].
C21_SimilaritiesSymmetric ==
    TableBuilt =>
        /\ built.kind = "return" /\ built.val.some
        /\ \A a \in CatValues : \A b \in CatValues :
            /\ (a \in DOMAIN Sims /\ b \in DOMAIN Sims[a])
                    <=> (b \in DOMAIN Sims /\ a \in DOMAIN Sims[b])
            /\ (a \in DOMAIN Sims /\ b \in DOMAIN Sims[a])
                    => Sims[a][b] = Sims[b][a]

\* C21 witness: the same pair named twice, in both orders and with
\* different similarities; the later connection sets both entries.
C21_Witness ==
    /\ TableBuilt
    /\ ctor.args[1].val = <<Connection("x", "y", Quarter),
                            Connection("y", "x", Half)>>
    /\ built.kind = "return"
    /\ Sims["x"]["y"] = Half /\ Sims["y"]["x"] = Half

===========================================================================
